---- MODULE Spec2Model ----
(***************************************************************************)
(* Crop disease prediction service: the model registry built at startup    *)
(* (utils.load_models), the crop router (utils.choose_model_key_from_crop) *)
(* and the HTTP handlers of main.py (GET /, POST /predict, GET /upload).   *)
(*                                                                         *)
(* Text is a sequence of one-character strings, so that lower(), strip(),  *)
(* startswith() and the substring test are computed, not assumed.  A path  *)
(* is the sequence of its components ("a/./b" is <<"a", ".", "b">>).       *)
(* A JSON value is a record tagged by its field t.                         *)
(***************************************************************************)
EXTENDS Integers, Sequences, FiniteSets, TLC

VARIABLES
    crop_name,      \* argument handed to choose_model_key_from_crop
    key,            \* its result, "none" before the call
    config,         \* content of the config file at MODEL_CONFIG_PATH
    static_dir,     \* STATIC_DIR on disk: "absent", "empty" or "with_upload"
    phase,          \* "import" while main.py is being imported, then "serving" or "crashed"
    startup_error,  \* the exception that ended the import, "none" otherwise
    MODELS,         \* main.MODELS, the registry: key -> entry
    printed,        \* the lines load_models printed: <<level, key>>
    inflight,       \* per connection: "idle" or the locals of a predict() suspended at await file.read()
    last            \* the response most recently sent, with what the handler did to produce it

vars == <<crop_name, key, config, static_dir, phase, startup_error, MODELS, printed, inflight, last>>

----------------------------------------------------------------------------
(* Bounds *)

MaxPieces == 2      \* a crop string is at most this many pieces of CropPieces
MaxEntries == 2     \* entries of the config object in the registry specification
MaxInFlight == 2    \* predict() calls suspended at the same time

----------------------------------------------------------------------------
(* Text *)

Text(s) == [i \in 1..Len(s) |-> s[i]]

UpperCase == <<"A","B","C","D","E","F","G","H","I","J","K","L","M",
               "N","O","P","Q","R","S","T","U","V","W","X","Y","Z">>
LowerCase == <<"a","b","c","d","e","f","g","h","i","j","k","l","m",
               "n","o","p","q","r","s","t","u","v","w","x","y","z">>
Whitespace == {" ", "\t", "\n"}

\* str.lower() on one character
LowerChar(c) ==
    IF \E i \in 1..26 : UpperCase[i] = c
    THEN LowerCase[CHOOSE i \in 1..26 : UpperCase[i] = c]
    ELSE c

\* str.lower()
Lower(s) == [i \in 1..Len(s) |-> LowerChar(s[i])]

\* str.strip(): drop leading and trailing whitespace
RECURSIVE LStrip(_)
LStrip(s) ==
    IF s # <<>> /\ Head(s) \in Whitespace THEN LStrip(Tail(s)) ELSE s

RECURSIVE RStrip(_)
RStrip(s) ==
    IF s # <<>> /\ s[Len(s)] \in Whitespace THEN RStrip(SubSeq(s, 1, Len(s) - 1)) ELSE s

Strip(s) == RStrip(LStrip(s))

\* str.startswith(prefix)
StartsWith(s, prefix) ==
    /\ Len(s) >= Len(prefix)
    /\ SubSeq(s, 1, Len(prefix)) = prefix

\* the `needle in s` substring test, scanning s from the left
RECURSIVE In(_, _)
In(needle, s) ==
    IF Len(s) < Len(needle) THEN FALSE
    ELSE IF StartsWith(s, needle) THEN TRUE
    ELSE In(needle, Tail(s))

RICE == <<"r","i","c","e">>
BANANA == <<"b","a","n","a","n","a">>

----------------------------------------------------------------------------
(* Crop Router *)

\* a router that tests "banana" before "rice"
choose_model_key_banana_first(name) ==
    LET s == Strip(Lower(name))
    IN  IF In(BANANA, s) THEN "banana"
        ELSE IF In(RICE, s) THEN "rice"
        ELSE "plant"

\* a router without the catch-all
choose_model_key_no_fallback(name) ==
    LET s == Strip(Lower(name))
    IN  IF In(RICE, s) THEN "rice"
        ELSE IF In(BANANA, s) THEN "banana"
        ELSE "unknown"

choose_model_key_from_crop(name) ==
    LET s == Strip(Lower(name))
    IN  IF In(RICE, s) THEN "rice"
        ELSE IF In(BANANA, s) THEN "banana"
        ELSE "plant"

----------------------------------------------------------------------------
(* JSON values and the files on disk *)

Absent == [t |-> "absent", v |-> <<>>]          \* dict.get() found no such field: None
JStr(p) == [t |-> "str", v |-> p]               \* a JSON string holding a path
JList(l) == [t |-> "list", v |-> l]             \* a JSON array
JNumber == [t |-> "number", v |-> <<>>]         \* a JSON number
JObject(pairs) == [t |-> "object", v |-> pairs] \* a JSON object, its members in file order
Unparsable == [t |-> "unparsable", v |-> <<>>]  \* text that json.load rejects

\* json.load of an object: a later member replaces an earlier one of the same name
DictKeys(pairs) == {pairs[i][1] : i \in 1..Len(pairs)}
DictGet(pairs, k) ==
    pairs[CHOOSE i \in 1..Len(pairs) :
            /\ pairs[i][1] = k
            /\ \A j \in (i+1)..Len(pairs) : pairs[j][1] # k][2]
Dict(pairs) == [k \in DictKeys(pairs) |-> DictGet(pairs, k)]

\* dict.items(): each key once, at the place of its first member
RECURSIVE ItemsFrom(_, _, _)
ItemsFrom(pairs, i, seen) ==
    IF i > Len(pairs) THEN <<>>
    ELSE IF pairs[i][1] \in seen THEN ItemsFrom(pairs, i + 1, seen)
    ELSE <<(<<pairs[i][1], DictGet(pairs, pairs[i][1])>>)>>
            \o ItemsFrom(pairs, i + 1, seen \cup {pairs[i][1]})
Items(pairs) == ItemsFrom(pairs, 1, {})

DefaultTargetSide == 224

\* os.path.normpath on a relative path
RECURSIVE NormComps(_, _)
NormComps(comps, acc) ==
    IF comps = <<>> THEN acc
    ELSE LET c == Head(comps)
         IN  IF c = "." \/ c = "" THEN NormComps(Tail(comps), acc)
             ELSE IF c = ".." /\ acc # <<>> /\ acc[Len(acc)] # ".."
                  THEN NormComps(Tail(comps), SubSeq(acc, 1, Len(acc) - 1))
                  ELSE NormComps(Tail(comps), Append(acc, c))
normpath(p) ==
    LET n == NormComps(p, <<>>)
    IN  IF n = <<>> THEN <<".">> ELSE n

\* The working directory the service is started in.  A model artifact is
\* described by the width of its output layer.
ModelFile(w) == [kind |-> "model", width |-> w, json |-> Unparsable]
JsonFile(j) == [kind |-> "text", width |-> 0, json |-> j]
Directory == [kind |-> "dir", width |-> 0, json |-> Unparsable]
CorruptFile == [kind |-> "binary", width |-> 0, json |-> Unparsable]

Disk ==
    (<<".">> :> Directory)
 @@ (<<"models">> :> Directory)
 @@ (<<"models", "rice.h5">> :> ModelFile(3))
 @@ (<<"models", "banana.h5">> :> ModelFile(2))
 @@ (<<"models", "plant.h5">> :> ModelFile(3))
 @@ (<<"models", "binary.h5">> :> ModelFile(1))
 @@ (<<"models", "corrupt.h5">> :> CorruptFile)
 @@ (<<"models", "rice.json">> :> JsonFile(JList(<<"blast", "brown_spot", "healthy">>)))
 @@ (<<"models", "banana.json">> :>
        JsonFile(JObject(<<(<<"1", "sigatoka">>), (<<"0", "cordana">>)>>)))
 @@ (<<"models", "plant.json">> :>
        JsonFile(JObject(<<(<<"0", "old">>), (<<"2", "rust">>), (<<"1", "scab">>),
                           (<<"0", "mildew">>)>>)))
 @@ (<<"models", "binary.json">> :> JsonFile(JList(<<"diseased">>)))
 @@ (<<"models", "short.json">> :> JsonFile(JList(<<"blast", "healthy">>)))
 @@ (<<"models", "long.json">> :>
        JsonFile(JObject(<<(<<"3", "tungro">>), (<<"0", "blast">>), (<<"1", "brown_spot">>),
                           (<<"2", "healthy">>)>>)))
 @@ (<<"models", "gap.json">> :>
        JsonFile(JObject(<<(<<"0", "blast">>), (<<"2", "healthy">>)>>)))
 @@ (<<"models", "named.json">> :>
        JsonFile(JObject(<<(<<"0", "blast">>), (<<"one", "healthy">>)>>)))
 @@ (<<"models", "number.json">> :> JsonFile(JNumber))
 @@ (<<"models", "broken.json">> :> JsonFile(Unparsable))

\* os.path.exists
exists(p) == p \in DOMAIN Disk

\* keras load_model: TRUE when the artifact at p loads
load_model_ok(p) == exists(p) /\ Disk[p].kind = "model"

\* open(p) and json.load: Unparsable for anything that raises
json_load(p) ==
    IF exists(p) /\ Disk[p].kind = "text" THEN Disk[p].json ELSE Unparsable

----------------------------------------------------------------------------
(* Model Registry: utils.load_models *)

Info(path, labels, target_size) ==
    [t |-> "object", path |-> path, labels |-> labels, target_size |-> target_size]

\* tuple(info.get("target_size", [224, 224]))
TargetSize(info) ==
    IF info.target_size.t = "absent" THEN <<DefaultTargetSide, DefaultTargetSide>>
    ELSE info.target_size.v

\* a normalization that takes an object's values in file order:
\* list(labels_json.values())
NormalizeLabelsFileOrder(labels_json) ==
    IF labels_json.t = "object"
    THEN LET items == Items(labels_json.v)
         IN  [ok |-> TRUE, labels |-> [i \in 1..Len(items) |-> items[i][2]]]
    ELSE IF labels_json.t = "list"
    THEN [ok |-> TRUE, labels |-> labels_json.v]
    ELSE [ok |-> FALSE, labels |-> <<>>]

\* The label sequence of a parsed labels file; "ok" is FALSE where the code
\* raises (KeyError on a missing index, ValueError on another JSON type, or
\* whatever open() and json.load raised).
NormalizeLabels(labels_json) ==
    IF labels_json.t = "object"
    THEN LET d == Dict(labels_json.v)
             n == Cardinality(DOMAIN d)
         IN  IF \A i \in 0..(n - 1) : ToString(i) \in DOMAIN d
             THEN [ok |-> TRUE, labels |-> [i \in 1..n |-> d[ToString(i - 1)]]]
             ELSE [ok |-> FALSE, labels |-> <<>>]
    ELSE IF labels_json.t = "list"
    THEN [ok |-> TRUE, labels |-> labels_json.v]
    ELSE [ok |-> FALSE, labels |-> <<>>]

Skipped(level, k) ==
    [outcome |-> "skipped", log |-> <<level, k>>,
     entry |-> [model |-> <<>>, labels |-> <<>>, target_size |-> <<>>]]
Raised(error) ==
    [outcome |-> error, log |-> <<"NONE", "">>,
     entry |-> [model |-> <<>>, labels |-> <<>>, target_size |-> <<>>]]

\* One pass of the loop body over the item (k, info).
LoadEntry(k, info) ==
    IF info.path.t # "str" \/ info.labels.t # "str" \/ info.target_size.t = "number"
    THEN Raised("TypeError")
    ELSE
    LET model_path == normpath(info.path.v)
        labels_path == normpath(info.labels.v)
        target_size == TargetSize(info)
        norm == NormalizeLabels(json_load(labels_path))
    IN  IF model_path = <<>> \/ ~exists(model_path) THEN Skipped("WARN", k)
        ELSE IF labels_path = <<>> \/ ~exists(labels_path) THEN Skipped("WARN", k)
        ELSE IF ~load_model_ok(model_path) THEN Skipped("ERROR", k)
        ELSE IF ~norm.ok THEN Skipped("ERROR", k)
        ELSE [outcome |-> "loaded", log |-> <<"INFO", k>>,
              entry |-> [model |-> model_path, labels |-> norm.labels,
                         target_size |-> target_size]]

\* models[key] = entry
Store(models, k, entry) ==
    [x \in DOMAIN models \cup {k} |-> IF x = k THEN entry ELSE models[x]]

\* a loop that leaves at the first skipped entry: break for continue
RECURSIVE LoadLoopBreak(_, _, _)
LoadLoopBreak(items, models, log) ==
    IF items = <<>>
    THEN IF DOMAIN models = {}
         THEN [result |-> "RuntimeError", models |-> <<>>, log |-> log]
         ELSE [result |-> "return", models |-> models, log |-> log]
    ELSE LET k == Head(items)[1]
             r == LoadEntry(k, Head(items)[2])
         IN  IF r.outcome = "loaded"
             THEN LoadLoopBreak(Tail(items), Store(models, k, r.entry), Append(log, r.log))
             ELSE IF r.outcome = "skipped"
             THEN LoadLoopBreak(<<>>, models, Append(log, r.log))
             ELSE [result |-> r.outcome, models |-> <<>>, log |-> log]

\* a loop without the emptiness check after it
RECURSIVE LoadLoopNoCheck(_, _, _)
LoadLoopNoCheck(items, models, log) ==
    IF items = <<>>
    THEN [result |-> "return", models |-> models, log |-> log]
    ELSE LET k == Head(items)[1]
             r == LoadEntry(k, Head(items)[2])
         IN  IF r.outcome = "loaded"
             THEN LoadLoopNoCheck(Tail(items), Store(models, k, r.entry), Append(log, r.log))
             ELSE IF r.outcome = "skipped"
             THEN LoadLoopNoCheck(Tail(items), models, Append(log, r.log))
             ELSE [result |-> r.outcome, models |-> <<>>, log |-> log]

\* The for loop over cfg.items(), then the emptiness check.
RECURSIVE LoadLoop(_, _, _)
LoadLoop(items, models, log) ==
    IF items = <<>>
    THEN IF DOMAIN models = {}
         THEN [result |-> "RuntimeError", models |-> <<>>, log |-> log]
         ELSE [result |-> "return", models |-> models, log |-> log]
    ELSE LET k == Head(items)[1]
             r == LoadEntry(k, Head(items)[2])
         IN  IF r.outcome = "loaded"
             THEN LoadLoop(Tail(items), Store(models, k, r.entry), Append(log, r.log))
             ELSE IF r.outcome = "skipped"
             THEN LoadLoop(Tail(items), models, Append(log, r.log))
             ELSE [result |-> r.outcome, models |-> <<>>, log |-> log]

load_models(cfg) ==
    IF cfg.t = "missing" THEN [result |-> "FileNotFoundError", models |-> <<>>, log |-> <<>>]
    ELSE IF cfg.t = "unparsable"
    THEN [result |-> "JSONDecodeError", models |-> <<>>, log |-> <<>>]
    ELSE IF cfg.t # "object" THEN [result |-> "AttributeError", models |-> <<>>, log |-> <<>>]
    ELSE LoadLoop(Items(cfg.v), <<>>, <<>>)

----------------------------------------------------------------------------
(* Inference Service: the helpers of main.predict *)

IMAGE_PREFIX == Text(<<"i","m","a","g","e","/">>)

\* Scores a model emits, in units of 10^-5.
Scores == {20004, 70008}

\* round(confidence, 4), in units of 10^-4
Round4(s) == (s + 5) \div 10

\* utils.preprocess_image_bytes: the shape of the tensor, or a decode failure
preprocess_image_bytes(img_bytes, target_size) ==
    IF img_bytes # "image" THEN [ok |-> FALSE, shape |-> <<>>]
    ELSE [ok |-> TRUE, shape |-> <<1, target_size[1], target_size[2], 3>>]

\* model.predict(x): one row of scores as wide as the model's output layer,
\* or an exception raised inside the framework
Predictions(model) ==
    {[ok |-> FALSE, preds |-> <<>>]}
        \cup {[ok |-> TRUE, preds |-> v] : v \in [1..Disk[model].width -> Scores]}

\* ndarray.argmin() in its place: the first position of the smallest score
ArgMin(preds) ==
    (CHOOSE i \in 1..Len(preds) :
        /\ \A j \in 1..Len(preds) : preds[j] >= preds[i]
        /\ \A j \in 1..(i - 1) : preds[j] > preds[i]) - 1

\* ndarray.argmax(): the first position of the largest score, counted from 0
ArgMax(preds) ==
    (CHOOSE i \in 1..Len(preds) :
        /\ \A j \in 1..Len(preds) : preds[j] <= preds[i]
        /\ \A j \in 1..(i - 1) : preds[j] < preds[i]) - 1

\* number of axes left by np.array(preds).squeeze() on a (1, C) output
SqueezedRank(preds) == IF Len(preds) = 1 THEN 0 ELSE 1

NoEntry == [model |-> <<>>, labels |-> <<>>, target_size |-> <<>>]
NoBody == [crop |-> <<>>, model_used |-> "", predicted_disease |-> "", confidence |-> -1,
           message |-> ""]

\* What a finished request leaves behind: the response (status, error, body)
\* and what the handler did on the way: the key the router returned ("" when
\* it was not called), whether the upload was read, the registry entry used,
\* the model predict() was called on, the tensor shape and the scores.
\* "line" is the line of main.py that raised, 0 when none did.
Sent(op, crop, content_type) ==
    [op |-> op, status |-> 200, error |-> "none", line |-> 0, crop |-> crop,
     content_type |-> content_type, routed |-> "", body_read |-> FALSE,
     used |-> NoEntry, invoked |-> <<>>, x |-> <<>>, preds |-> <<>>, body |-> NoBody]

NoResponse == [Sent("none", <<>>, Absent) EXCEPT !.status = 0]

Idle == [st |-> "idle", crop |-> <<>>, content_type |-> Absent, key |-> "",
         model_info |-> NoEntry]

----------------------------------------------------------------------------
(* main.py: import, then the request handlers *)

\* Lines 23-28: build the registry, then create STATIC_DIR if it is absent.
\* An exception out of load_models ends the import.
Startup ==
    /\ phase = "import"
    /\ LET r == load_models(config)
       IN  \/ /\ r.result = "return"
              /\ MODELS' = r.models
              /\ printed' = r.log
              /\ static_dir' = IF static_dir = "absent" THEN "empty" ELSE static_dir
              /\ phase' = "serving"
              /\ UNCHANGED startup_error
           \/ /\ r.result # "return"
              /\ printed' = r.log
              /\ startup_error' = r.result
              /\ phase' = "crashed"
              /\ UNCHANGED <<MODELS, static_dir>>
    /\ UNCHANGED <<crop_name, key, config, inflight, last>>

\* GET /
Root ==
    /\ phase = "serving"
    /\ last' = [Sent("root", <<>>, Absent) EXCEPT !.body.message = "running"]
    /\ UNCHANGED <<crop_name, key, config, static_dir, phase, startup_error, MODELS,
                   printed, inflight>>

\* GET /upload
UploadForm ==
    /\ phase = "serving"
    /\ \/ /\ static_dir # "with_upload"
          /\ last' = [Sent("upload", <<>>, Absent) EXCEPT
                        !.status = 404, !.body.message = "not found"]
       \/ /\ static_dir = "with_upload"
          /\ last' = [Sent("upload", <<>>, Absent) EXCEPT !.body.message = "upload.html"]
    /\ UNCHANGED <<crop_name, key, config, static_dir, phase, startup_error, MODELS,
                   printed, inflight>>

\* POST /predict, lines 42-50: the checks made before the upload is read.
\* "ok" with the key, or the response that ends the request.
AdmissionRouteFirst(crop, content_type) ==
    LET k == choose_model_key_from_crop(crop)
        sent == Sent("predict", crop, content_type)
    IN  IF k \notin DOMAIN MODELS
        THEN [ok |-> FALSE, key |-> k,
              reply |-> [sent EXCEPT !.status = 400, !.error = "UnknownCrop",
                                     !.line = 48, !.routed = k]]
        ELSE IF content_type.t # "str"
        THEN [ok |-> FALSE, key |-> "",
              reply |-> [sent EXCEPT !.status = 500, !.error = "AttributeError",
                                     !.line = 42]]
        ELSE IF ~StartsWith(content_type.v, IMAGE_PREFIX)
        THEN [ok |-> FALSE, key |-> "",
              reply |-> [sent EXCEPT !.status = 400, !.error = "InvalidContentType",
                                     !.line = 43]]
        ELSE [ok |-> TRUE, key |-> k, reply |-> sent]

Admission(crop, content_type) ==
    LET k == choose_model_key_from_crop(crop)
        sent == Sent("predict", crop, content_type)
    IN  IF content_type.t # "str"
        THEN [ok |-> FALSE, key |-> "",
              reply |-> [sent EXCEPT !.status = 500, !.error = "AttributeError",
                                     !.line = 42]]
        ELSE IF ~StartsWith(content_type.v, IMAGE_PREFIX)
        THEN [ok |-> FALSE, key |-> "",
              reply |-> [sent EXCEPT !.status = 400, !.error = "InvalidContentType",
                                     !.line = 43]]
        ELSE IF k \notin DOMAIN MODELS
        THEN [ok |-> FALSE, key |-> k,
              reply |-> [sent EXCEPT !.status = 400, !.error = "UnknownCrop",
                                     !.line = 48, !.routed = k]]
        ELSE [ok |-> TRUE, key |-> k, reply |-> sent]

\* POST /predict up to the await of file.read()
PredictBegin(c, crop, content_type) ==
    /\ phase = "serving"
    /\ inflight[c].st = "idle"
    /\ LET a == Admission(crop, content_type)
       IN  IF a.ok
           THEN /\ inflight' = [inflight EXCEPT ![c] =
                                   [st |-> "reading", crop |-> crop,
                                    content_type |-> content_type, key |-> a.key,
                                    model_info |-> MODELS[a.key]]]
                /\ UNCHANGED last
           ELSE /\ last' = a.reply
                /\ UNCHANGED inflight
    /\ UNCHANGED <<crop_name, key, config, static_dir, phase, startup_error, MODELS, printed>>

\* a lookup that answers with the last label when idx is past the end
LabelAtClamped(labels, idx) ==
    IF labels = <<>> THEN [ok |-> FALSE, label |-> ""]
    ELSE IF idx >= Len(labels) THEN [ok |-> TRUE, label |-> labels[Len(labels)]]
    ELSE [ok |-> TRUE, label |-> labels[idx + 1]]

\* model_info["labels"][idx], idx counted from 0; "ok" is FALSE for IndexError
LabelAt(labels, idx) ==
    IF idx >= Len(labels) THEN [ok |-> FALSE, label |-> ""]
    ELSE [ok |-> TRUE, label |-> labels[idx + 1]]

\* What model.predict may answer to the request: nothing when the upload
\* does not decode (predict is not reached).
NotCalled == [ok |-> FALSE, preds |-> <<>>]
Outcomes(req, img_bytes) ==
    IF preprocess_image_bytes(img_bytes, req.model_info.target_size).ok
    THEN Predictions(req.model_info.model)
    ELSE {NotCalled}

\* POST /predict, lines 53-68: the response, given the upload and the model's answer
PredictResult(req, img_bytes, out) ==
    LET info == req.model_info
        x == preprocess_image_bytes(img_bytes, info.target_size)
        read == [Sent("predict", req.crop, req.content_type) EXCEPT
                    !.routed = req.key, !.body_read = TRUE, !.used = info]
        called == [read EXCEPT !.invoked = info.model, !.x = x.shape, !.preds = out.preds]
        idx == ArgMax(out.preds)
        found == LabelAt(info.labels, idx)
    IN  IF ~x.ok
        THEN [read EXCEPT !.status = 500, !.error = "DecodeError", !.line = 54]
        ELSE IF ~out.ok
        THEN [called EXCEPT !.status = 500, !.error = "InferenceError", !.line = 57]
        ELSE IF SqueezedRank(out.preds) = 0
        THEN [called EXCEPT !.status = 500, !.error = "IndexError", !.line = 60]
        ELSE IF ~found.ok
        THEN [called EXCEPT !.status = 500, !.error = "IndexError", !.line = 61]
        ELSE [called EXCEPT !.body =
                [crop |-> req.crop, model_used |-> req.key,
                 predicted_disease |-> found.label,
                 confidence |-> Round4(out.preds[idx + 1]),
                 message |-> ""]]

\* a handler that takes the label out of the entry's list: labels.pop(idx)
PredictEndPop(c, img_bytes) ==
    /\ inflight[c].st = "reading"
    /\ \E out \in Outcomes(inflight[c], img_bytes) :
          LET r == PredictResult(inflight[c], img_bytes, out)
              k == inflight[c].key
              l == MODELS[k].labels
              i == ArgMax(out.preds) + 1
          IN  /\ last' = r
              /\ MODELS' = IF r.status = 200 /\ i <= Len(l)
                           THEN [MODELS EXCEPT ![k].labels =
                                    SubSeq(l, 1, i - 1) \o SubSeq(l, i + 1, Len(l))]
                           ELSE MODELS
    /\ inflight' = [inflight EXCEPT ![c] = Idle]
    /\ UNCHANGED <<crop_name, key, config, static_dir, phase, startup_error, printed>>

\* POST /predict after the await: the upload has been read
PredictEnd(c, img_bytes) ==
    /\ inflight[c].st = "reading"
    /\ \E out \in Outcomes(inflight[c], img_bytes) :
          last' = PredictResult(inflight[c], img_bytes, out)
    /\ inflight' = [inflight EXCEPT ![c] = Idle]
    /\ UNCHANGED <<crop_name, key, config, static_dir, phase, startup_error, MODELS, printed>>

\* A direct call of the router on crop_name.
Route ==
    /\ key = "none"
    /\ key' = choose_model_key_from_crop(crop_name)
    /\ UNCHANGED <<crop_name, config, static_dir, phase, startup_error, MODELS, printed,
                   inflight, last>>

----------------------------------------------------------------------------
(* Inputs *)

W(s) == Text(s)
CropPieces ==
    { W(<<"r","i","c","e">>), W(<<"R","i","c","e">>), W(<<"R","I","C","E">>),
      W(<<"b","a","n","a","n","a">>), W(<<"B","a","N","A","n","a">>),
      W(<<"r","i","c">>), W(<<"e">>), W(<<"b","a","n","a">>), W(<<"n","a">>),
      W(<<" ">>), W(<<"\t">>), W(<<"x">>) }

RECURSIVE Joined(_)
Joined(n) ==
    IF n = 0 THEN {<<>>}
    ELSE Joined(n - 1) \cup {a \o b : a \in Joined(n - 1), b \in CropPieces}

CropInputs == Joined(MaxPieces)

RicePaddy == W(<<"R","i","c","e"," ","P","a","d","d","y">>)
Crops ==
    { RicePaddy, W(<<" ","B","A","N","A","N","A","\n">>), W(<<"w","h","e","a","t">>),
      W(<<"b","a","n","a","n","a"," ","o","r"," ","r","i","c","e">>), <<>> }

ContentTypes ==
    { Absent,
      JStr(W(<<"i","m","a","g","e","/","p","n","g">>)),
      JStr(W(<<"I","M","A","G","E","/","p","n","g">>)),
      JStr(W(<<"t","e","x","t","/","p","l","a","i","n">>)),
      JStr(W(<<"i","m","a","g">>)) }

Uploads == {"image", "garbage"}

P(name) == JStr(<<"models", name>>)

InfoPool ==
    { Info(P("rice.h5"), P("rice.json"), JList(<<2, 3>>)),
      Info(JStr(<<".", "models", "..", "models", "banana.h5">>), P("banana.json"), Absent),
      Info(P("plant.h5"), JStr(<<"nodir", "..", "models", "", "plant.json">>), Absent),
      Info(P("absent.h5"), P("rice.json"), Absent),
      Info(P("rice.h5"), P("absent.json"), Absent),
      Info(P("corrupt.h5"), P("rice.json"), Absent),
      Info(JStr(<<>>), P("rice.json"), Absent),
      Info(P("rice.h5"), P("gap.json"), Absent),
      Info(P("rice.h5"), P("named.json"), Absent),
      Info(P("rice.h5"), P("number.json"), Absent),
      Info(P("rice.h5"), P("broken.json"), Absent),
      Info(P("rice.h5"), P("banana.h5"), Absent),
      Info(Absent, P("rice.json"), Absent),
      Info(P("rice.h5"), Absent, Absent),
      Info(P("rice.h5"), P("rice.json"), JNumber) }

ConfigKeys == {"rice", "banana", "plant"}
Members == {<<k, info>> : k \in ConfigKeys, info \in InfoPool}
Missing == [t |-> "missing", v |-> <<>>]

\* config files of the registry specification
Configs ==
    {Missing, Unparsable, JList(<<>>)}
        \cup {JObject(m) : m \in UNION {[1..n -> Members] : n \in 0..MaxEntries}}

\* config files the service is started with
RiceEntry == Info(P("rice.h5"), P("rice.json"), JList(<<2, 3>>))
BananaEntry ==
    Info(JStr(<<".", "models", "..", "models", "banana.h5">>), P("banana.json"), Absent)
PlantEntry == Info(P("plant.h5"), P("plant.json"), Absent)

ServiceConfigs ==
    { Missing,
      JObject(<<>>),
      JObject(<<(<<"rice", RiceEntry>>), (<<"banana", BananaEntry>>),
                (<<"plant", PlantEntry>>)>>),
      JObject(<<(<<"rice", Info(P("absent.h5"), P("rice.json"), Absent)>>),
                (<<"plant", PlantEntry>>)>>),
      JObject(<<(<<"rice", Info(P("rice.h5"), P("short.json"), Absent)>>),
                (<<"banana", Info(P("banana.h5"), P("long.json"), Absent)>>),
                (<<"plant", Info(P("binary.h5"), P("binary.json"), Absent)>>)>>),
      JObject(<<(<<"banana", BananaEntry>>), (<<"wheat", PlantEntry>>)>>),
      JObject(<<(<<"rice", Info(P("corrupt.h5"), P("rice.json"), Absent)>>),
                (<<"plant", Info(P("plant.h5"), P("gap.json"), Absent)>>)>>),
      JObject(<<(<<"rice", Info(Absent, P("rice.json"), Absent)>>),
                (<<"plant", PlantEntry>>)>>) }

----------------------------------------------------------------------------
(* Specifications *)

Connections == 1..MaxInFlight

InitWith(crops, configs) ==
    /\ crop_name \in crops
    /\ key = "none"
    /\ config \in configs
    /\ static_dir \in {"absent", "with_upload"}
    /\ phase = "import"
    /\ startup_error = "none"
    /\ MODELS = <<>>
    /\ printed = <<>>
    /\ inflight = [c \in Connections |-> Idle]
    /\ last = NoResponse

\* The service: import of main.py, then requests in any order.
Init == InitWith({<<>>}, ServiceConfigs)

Next ==
    \/ Startup
    \/ Root
    \/ UploadForm
    \/ \E c \in Connections, crop \in Crops, content_type \in ContentTypes :
          PredictBegin(c, crop, content_type)
    \/ \E c \in Connections, img_bytes \in Uploads : PredictEnd(c, img_bytes)

Spec == Init /\ [][Next]_vars

\* The registry alone: load_models on every config file of Configs.
InitLoad == InitWith({<<>>}, Configs)
NextLoad == Startup
SpecLoad == InitLoad /\ [][NextLoad]_vars

\* The router alone: choose_model_key_from_crop on every string of CropInputs.
InitRouter == InitWith(CropInputs, {Missing})
NextRouter == Route
SpecRouter == InitRouter /\ [][NextRouter]_vars

----------------------------------------------------------------------------
(* Vocabulary of the properties *)

\* w occurs in t
HasWord(t, w) == \E i \in 1..(Len(t) - Len(w) + 1) : SubSeq(t, i, i + Len(w) - 1) = w

\* the declared content type begins with "image/"
DeclaredImage(ct) ==
    /\ ct.t = "str"
    /\ Len(ct.v) >= Len(IMAGE_PREFIX)
    /\ \A i \in 1..Len(IMAGE_PREFIX) : ct.v[i] = IMAGE_PREFIX[i]

\* the entry has both path fields and a usable target_size: the loop body
\* reaches its checks
HasFields(info) ==
    info.path.t = "str" /\ info.labels.t = "str" /\ info.target_size.t # "number"

\* a labels file that is a list, or an object whose keys are "0".."N-1"
WellShaped(j) ==
    \/ j.t = "list"
    \/ /\ j.t = "object"
       /\ DictKeys(j.v) = {ToString(i) : i \in 0..(Cardinality(DictKeys(j.v)) - 1)}

LabelsFileOf(info) == json_load(normpath(info.labels.v))

\* the four checks of the loop body
PassesFourChecks(info) ==
    /\ HasFields(info)
    /\ normpath(info.path.v) \in DOMAIN Disk
    /\ normpath(info.labels.v) \in DOMAIN Disk
    /\ Disk[normpath(info.path.v)].kind = "model"
    /\ WellShaped(LabelsFileOf(info))

ConfigKeysOf(cfg) == IF cfg.t = "object" THEN DictKeys(cfg.v) ELSE {}
EntryOf(cfg, k) == DictGet(cfg.v, k)

RouterKeys == {"rice", "banana", "plant"}

ServedPredict == last.op = "predict" /\ last.status = 200

----------------------------------------------------------------------------
(* Properties *)

\* C1: the router is total with exactly three results and a fixed
\* precedence: "rice" when the lower-cased, trimmed text contains "rice"
\* (also when it contains "banana" too), otherwise "banana" when it
\* contains "banana", otherwise "plant" (the empty string included).
C1_RouterPrecedence ==
    key # "none" =>
        LET t == Strip(Lower(crop_name))
        IN  /\ key \in RouterKeys
            /\ HasWord(t, RICE) => key = "rice"
            /\ ~HasWord(t, RICE) /\ HasWord(t, BANANA) => key = "banana"
            /\ ~HasWord(t, RICE) /\ ~HasWord(t, BANANA) => key = "plant"
            /\ crop_name = <<>> => key = "plant"

C1_Witness ==
    /\ key = "rice"
    /\ crop_name # Lower(crop_name)
    /\ HasWord(Lower(crop_name), BANANA)

\* C2: when load_models returns, the keys of the mapping are exactly the
\* config keys whose entry passed the four checks; a config of one valid
\* entry and one entry (with its fields present) whose model file does not
\* exist yields the mapping of the valid key alone, in either order.
OneValidOneMissingModel(cfg, valid) ==
    /\ cfg.t = "object"
    /\ Len(cfg.v) = 2
    /\ \E i \in 1..2 :
          LET j == 3 - i
          IN  /\ cfg.v[i][1] = valid
              /\ cfg.v[j][1] # valid
              /\ PassesFourChecks(cfg.v[i][2])
              /\ HasFields(cfg.v[j][2])
              /\ normpath(cfg.v[j][2].path.v) \notin DOMAIN Disk

C2_LoadedKeys ==
    /\ phase = "serving" =>
          /\ config.t = "object"
          /\ DOMAIN MODELS = {k \in ConfigKeysOf(config) : PassesFourChecks(EntryOf(config, k))}
    /\ \A valid \in ConfigKeys :
          phase # "import" /\ OneValidOneMissingModel(config, valid) =>
              phase = "serving" /\ DOMAIN MODELS = {valid}

C2_Witness ==
    /\ phase = "serving"
    /\ OneValidOneMissingModel(config, "plant")
    /\ config.v[2][1] = "plant"
    /\ DOMAIN MODELS = {"plant"}
    /\ printed = <<(<<"WARN", config.v[1][1]>>), (<<"INFO", "plant">>)>>

\* C3: load_models never returns an empty mapping: when every entry was
\* processed and none was loaded it raises NoModelsLoaded (RuntimeError), so
\* the registry is non-empty whenever a request is or has been handled.
C3_NonEmptyRegistry ==
    /\ phase = "serving" => DOMAIN MODELS # {}
    /\ (last.op # "none" \/ \E c \in Connections : inflight[c].st # "idle") =>
          phase = "serving" /\ DOMAIN MODELS # {}
    /\ ( /\ phase # "import"
         /\ config.t = "object"
         /\ \A k \in ConfigKeysOf(config) :
               HasFields(EntryOf(config, k)) /\ ~PassesFourChecks(EntryOf(config, k)) )
          => phase = "crashed" /\ startup_error = "RuntimeError"

C3_Witness ==
    /\ phase = "crashed"
    /\ startup_error = "RuntimeError"
    /\ ConfigKeysOf(config) # {}

\* C4: a predict request whose declared content type does not begin with
\* "image/" ends in 400 whatever the crop and the registry, before anything
\* else: the crop is not routed, the upload is not read, no model is called.
C4_ContentTypeFirst ==
    /\ ( /\ last.op = "predict"
         /\ last.content_type.t = "str"
         /\ ~DeclaredImage(last.content_type) )
          => /\ last.status = 400
             /\ last.error = "InvalidContentType"
             /\ last.routed = ""
             /\ ~last.body_read
             /\ last.used = NoEntry
             /\ last.invoked = <<>>
             /\ last.preds = <<>>
    /\ \A c \in Connections :
          inflight[c].st = "reading" => DeclaredImage(inflight[c].content_type)

C4_Witness ==
    /\ last.error = "InvalidContentType"
    /\ last.crop = RicePaddy
    /\ "rice" \in DOMAIN MODELS
    /\ \E c \in Connections : inflight[c].st = "reading"

C6_ResponseOfRoutedEntry ==
    ServedPredict =>
        LET k == last.body.model_used
            scores == last.preds
        IN  /\ k = choose_model_key_from_crop(last.crop)
            /\ k \in DOMAIN MODELS
            /\ last.used = MODELS[k]
            /\ last.invoked = MODELS[k].model
            /\ last.x = <<1, MODELS[k].target_size[1], MODELS[k].target_size[2], 3>>
            /\ Len(scores) = Disk[MODELS[k].model].width
            /\ \E i \in 1..Len(scores) :
                  /\ \A j \in 1..Len(scores) : scores[j] <= scores[i]
                  /\ i <= Len(MODELS[k].labels)
                  /\ last.body.predicted_disease = MODELS[k].labels[i]
                  /\ last.body.confidence * 10 - 5 <= scores[i]
                  /\ scores[i] < last.body.confidence * 10 + 5
            /\ last.body.crop = last.crop
            /\ last.crop = RicePaddy => k = "rice"

C6_Witness ==
    /\ ServedPredict
    /\ last.crop = RicePaddy
    /\ last.body.crop # Strip(Lower(last.body.crop))
    /\ last.body.model_used = "rice"
    /\ last.body.predicted_disease = "brown_spot"
    /\ last.x = <<1, 2, 3, 3>>

\* C7: the registry is read-only after startup: no request, whatever its
\* kind, order, interleaving or outcome, changes MODELS once load_models
\* has returned.
C7_RegistryReadOnly ==
    [][phase = "serving" => MODELS' = MODELS /\ phase' = "serving"]_vars

C7_Witness ==
    /\ phase = "serving"
    /\ ServedPredict
    /\ \A c \in Connections : inflight[c].st = "reading"

\* the request got as far as the label lookup of line 61
ReachedLookup ==
    /\ last.op = "predict"
    /\ last.invoked # <<>>
    /\ last.preds # <<>>
    /\ last.line \notin {57, 60}

LookupFailed == last.op = "predict" /\ last.error = "IndexError" /\ last.line = 61

\* C8 as stated: the lookup fails whenever the labels are not as many as
\* the scores, and never when they are.
C8_FailsIffLengthsDiffer ==
    ReachedLookup => (LookupFailed <=> Len(last.used.labels) # Len(last.preds))

\* C8, amended: the lookup fails exactly when the first largest score lies
\* at an index not below the number of labels, which takes fewer labels
\* than scores; with as many labels as scores, or more, it never fails.
C8_FailsIffArgmaxPastLabels ==
    /\ ReachedLookup =>
          (LookupFailed <=>
              \A i \in 1..Len(last.preds) :
                  i <= Len(last.used.labels) =>
                      \E j \in 1..Len(last.preds) : last.preds[j] > last.preds[i])
    /\ LookupFailed => Len(last.used.labels) < Len(last.preds)
    /\ LookupFailed => ReachedLookup

C8_Witness ==
    /\ LookupFailed
    /\ Len(last.used.labels) = 2
    /\ Len(last.preds) = 3

\* C9: a labels file that is an array is the label sequence unchanged; an
\* object of N keys is accepted only when its keys are "0".."N-1", and then
\* label i is the value at key str(i) whatever the order of the members; an
\* object missing one of these keys, or any other JSON value, keeps the
\* entry out of the registry.
C9_LabelNormalization ==
    phase = "serving" =>
        \A k \in ConfigKeysOf(config) :
            LET info == EntryOf(config, k)
                j == LabelsFileOf(info)
                keys == DictKeys(j.v)
                n == Cardinality(keys)
            IN  /\ j.t \notin {"list", "object"} => k \notin DOMAIN MODELS
                /\ ( /\ j.t = "object"
                     /\ \E i \in 0..(n - 1) : ToString(i) \notin keys )
                      => k \notin DOMAIN MODELS
                /\ k \in DOMAIN MODELS /\ j.t = "list" => MODELS[k].labels = j.v
                /\ k \in DOMAIN MODELS /\ j.t = "object" =>
                      /\ keys = {ToString(i) : i \in 0..(n - 1)}
                      /\ Len(MODELS[k].labels) = n
                      /\ \A i \in 0..(n - 1) :
                            MODELS[k].labels[i + 1] = DictGet(j.v, ToString(i))

C9_Witness ==
    /\ phase = "serving"
    /\ DOMAIN MODELS = {"banana"}
    /\ MODELS["banana"].labels = <<"cordana", "sigatoka">>
    /\ Len(config.v) = 2
    /\ LabelsFileOf(config.v[1][2]).t = "object"
    /\ ~WellShaped(LabelsFileOf(config.v[1][2]))

\* C10: with a config that parses to an object, a defect confined to one
\* entry only skips that entry: load_models fails with NoModelsLoaded or
\* not at all, and every valid entry is loaded.
C10_EntryDefectsOnlySkip ==
    phase # "import" /\ config.t = "object" =>
        /\ startup_error \in {"none", "RuntimeError"}
        /\ (\E k \in ConfigKeysOf(config) : PassesFourChecks(EntryOf(config, k))) =>
              /\ phase = "serving"
              /\ \A k \in ConfigKeysOf(config) :
                    PassesFourChecks(EntryOf(config, k)) => k \in DOMAIN MODELS

====
